---------------------------- MODULE Spec2Model ----------------------------
(***************************************************************************)
(* A model of hr_resume_converter_groq.py: the AI-reply parser             *)
(* (parse_ai_response), the content rules of the document builder          *)
(* (create_resume) and the /convert request handler (convert_route).       *)
(*                                                                         *)
(* Text is modelled character by character: a string is a sequence of      *)
(* one-character strings, so that splitting, trimming, case folding and    *)
(* substring search are computed the way the Python code computes them.    *)
(* Two characters outside ASCII are written as tokens: "EN_DASH" (U+2013)  *)
(* and "BULLET" (U+2022).                                                  *)
(*                                                                         *)
(* Three specifications share the module:                                  *)
(*   SpecParse  one call of parse_ai_response on a bounded input text      *)
(*   SpecBuild  one call of create_resume on a record the parser can       *)
(*              return                                                     *)
(*   SpecRoute  concurrent /convert requests over a shared temp directory  *)
(***************************************************************************)
EXTENDS Naturals, Sequences, FiniteSets

VARIABLES
    \* ---- parse_ai_response ----
    text,         \* the argument: the raw reply
    lines,        \* text.split("\n")
    idx,          \* position of the for loop in lines
    data,         \* the accumulating dict
    current_key,  \* the active section, or "None"
    ppc,          \* "call" | "loop" | "returned" | "raised"
    result,       \* the returned dict
    \* ---- create_resume ----
    rec,          \* the argument: a candidate record
    logo_found,   \* whether a logo file exists under static/
    doc,          \* the paragraphs added to the document, in order
    bpc,          \* "call" | "built"
    \* ---- convert_route ----
    clock,        \* the wall clock, in whole seconds
    files,        \* the paths that exist in TEMP_DIR
    req           \* the per-request locals and position

pvars == <<text, lines, idx, data, current_key, ppc, result>>
bvars == <<rec, logo_found, doc, bpc>>
rvars == <<clock, files, req>>
vars == <<pvars, bvars, rvars>>

---------------------------------------------------------------------------
(* Characters and strings                                                  *)

UpperAlpha ==
    <<"A","B","C","D","E","F","G","H","I","J","K","L","M",
      "N","O","P","Q","R","S","T","U","V","W","X","Y","Z">>

LowerAlpha ==
    <<"a","b","c","d","e","f","g","h","i","j","k","l","m",
      "n","o","p","q","r","s","t","u","v","w","x","y","z">>

Digits == {"0","1","2","3","4","5","6","7","8","9"}

\* str.strip() with no argument removes whitespace; these are the whitespace
\* characters that occur in the inputs.
Whitespace == {" ", "\t", "\r", "\n"}

IndexIn(alpha, c) == CHOOSE i \in 1..Len(alpha) : alpha[i] = c

UpperSet == {UpperAlpha[i] : i \in 1..26}
LowerSet == {LowerAlpha[i] : i \in 1..26}

IsUpper(c) == c \in UpperSet
IsLower(c) == c \in LowerSet

LowerChar(c) == IF IsUpper(c) THEN LowerAlpha[IndexIn(UpperAlpha, c)] ELSE c
UpperChar(c) == IF IsLower(c) THEN UpperAlpha[IndexIn(LowerAlpha, c)] ELSE c

\* str.lower()
RECURSIVE Lower(_)
Lower(s) ==
    IF s = <<>> THEN <<>> ELSE <<LowerChar(Head(s))>> \o Lower(Tail(s))

\* str.upper()
RECURSIVE Upper(_)
Upper(s) ==
    IF s = <<>> THEN <<>> ELSE <<UpperChar(Head(s))>> \o Upper(Tail(s))

\* str.lstrip()
RECURSIVE LStrip(_)
LStrip(s) ==
    IF s # <<>> /\ Head(s) \in Whitespace THEN LStrip(Tail(s)) ELSE s

\* str.rstrip()
RECURSIVE RStrip(_)
RStrip(s) ==
    IF s # <<>> /\ s[Len(s)] \in Whitespace
    THEN RStrip(SubSeq(s, 1, Len(s) - 1)) ELSE s

\* str.strip()
Strip(s) == RStrip(LStrip(s))

\* p in s
Contains(s, p) ==
    \E i \in 0..Len(s) : i + Len(p) <= Len(s) /\ SubSeq(s, i + 1, i + Len(p)) = p

\* s.startswith(p)
StartsWith(s, p) == Len(p) <= Len(s) /\ SubSeq(s, 1, Len(p)) = p

\* s.endswith(p)
EndsWith(s, p) ==
    Len(p) <= Len(s) /\ SubSeq(s, Len(s) - Len(p) + 1, Len(s)) = p

\* The position of the first c in s, or 0.
FirstIndex(s, c) ==
    IF \E i \in 1..Len(s) : s[i] = c
    THEN CHOOSE i \in 1..Len(s) : s[i] = c /\ \A j \in 1..(i - 1) : s[j] # c
    ELSE 0

\* s.split(c): every piece between occurrences of c; "".split(c) is [""].
RECURSIVE Split(_, _)
Split(s, c) ==
    LET i == FirstIndex(s, c)
    IN IF i = 0 THEN <<s>>
       ELSE <<SubSeq(s, 1, i - 1)>> \o Split(SubSeq(s, i + 1, Len(s)), c)

\* s.split(c, 1): at most one split, at the first c.
SplitOnce(s, c) ==
    LET i == FirstIndex(s, c)
    IN IF i = 0 THEN <<s>>
       ELSE <<SubSeq(s, 1, i - 1), SubSeq(s, i + 1, Len(s))>>

\* sep.join(parts)
RECURSIVE Join(_, _)
Join(parts, sep) ==
    IF parts = <<>> THEN <<>>
    ELSE IF Len(parts) = 1 THEN parts[1]
    ELSE parts[1] \o sep \o Join(Tail(parts), sep)

---------------------------------------------------------------------------
(* parse_ai_response                                                       *)

\* The keys of the dict, in the insertion order of its literal.
FieldOrder ==
    <<"Full Name", "Professional Title", "Email", "Phone", "Location",
      "Profile Summary", "Professional Experience", "Project Experience",
      "Technical Skills", "Soft Skills">>

FieldNames == {FieldOrder[i] : i \in 1..Len(FieldOrder)}

\* The substrings searched for in the lowercased line.
P_full_name ==
    <<"f","u","l","l"," ","n","a","m","e",":">>
P_professional_title ==
    <<"p","r","o","f","e","s","s","i","o","n","a","l"," ","t","i","t","l","e",":">>
P_email ==
    <<"e","m","a","i","l",":">>
P_phone ==
    <<"p","h","o","n","e",":">>
P_location ==
    <<"l","o","c","a","t","i","o","n",":">>
P_profile_summary ==
    <<"p","r","o","f","i","l","e"," ","s","u","m","m","a","r","y",":">>
P_professional_experience ==
    <<"p","r","o","f","e","s","s","i","o","n","a","l"," ","e","x","p","e","r","i","e","n","c","e",":">>
P_project_experience ==
    <<"p","r","o","j","e","c","t"," ","e","x","p","e","r","i","e","n","c","e",":">>
P_technical_skills ==
    <<"t","e","c","h","n","i","c","a","l"," ","s","k","i","l","l","s",":">>
P_soft_skills ==
    <<"s","o","f","t"," ","s","k","i","l","l","s",":">>

\* A variant of IdentityPats whose e-mail pattern lacks the colon.
IdentityPatsNoColon ==
    <<[pat |-> P_full_name,          key |-> "Full Name"],
      [pat |-> P_professional_title, key |-> "Professional Title"],
      [pat |-> SubSeq(P_email, 1, 5), key |-> "Email"],
      [pat |-> P_phone,              key |-> "Phone"],
      [pat |-> P_location,           key |-> "Location"]>>

IdentityPats ==
    <<[pat |-> P_full_name,          key |-> "Full Name"],
      [pat |-> P_professional_title, key |-> "Professional Title"],
      [pat |-> P_email,              key |-> "Email"],
      [pat |-> P_phone,              key |-> "Phone"],
      [pat |-> P_location,           key |-> "Location"]>>

HeadingPats ==
    <<[pat |-> P_profile_summary,         key |-> "Profile Summary"],
      [pat |-> P_professional_experience, key |-> "Professional Experience"],
      [pat |-> P_project_experience,      key |-> "Project Experience"],
      [pat |-> P_technical_skills,        key |-> "Technical Skills"],
      [pat |-> P_soft_skills,             key |-> "Soft Skills"]>>

IdentityKeys == {IdentityPats[i].key : i \in 1..Len(IdentityPats)}
SectionKeys == {HeadingPats[i].key : i \in 1..Len(HeadingPats)}

\* The chain of `if "<pat>" in lower_line:` tests over one table: the position
\* of the first pattern of pats that lower_line contains, or 0.
FirstMatch(pats, lower_line) ==
    IF \E i \in 1..Len(pats) : Contains(lower_line, pats[i].pat)
    THEN CHOOSE i \in 1..Len(pats) :
            /\ Contains(lower_line, pats[i].pat)
            /\ \A j \in 1..(i - 1) : ~Contains(lower_line, pats[j].pat)
    ELSE 0

\* A variant of Classify that tests the heading patterns first.
ClassifyHeadingFirst(line) ==
    LET lower_line == Lower(line)
        im == FirstMatch(IdentityPats, lower_line)
        hm == FirstMatch(HeadingPats, lower_line)
    IN IF hm # 0 THEN [kind |-> "heading", key |-> HeadingPats[hm].key]
       ELSE IF im # 0 THEN [kind |-> "identity", key |-> IdentityPats[im].key]
       ELSE [kind |-> "body", key |-> "None"]

\* What the if-chain does with a stripped, non-blank line: the five identity
\* tests come first, then the five heading tests, then the fall-through.
Classify(line) ==
    LET lower_line == Lower(line)
        im == FirstMatch(IdentityPats, lower_line)
        hm == FirstMatch(HeadingPats, lower_line)
    IN IF im # 0 THEN [kind |-> "identity", key |-> IdentityPats[im].key]
       ELSE IF hm # 0 THEN [kind |-> "heading", key |-> HeadingPats[hm].key]
       ELSE [kind |-> "body", key |-> "None"]

\* line.split(":", 1)[1] raises IndexError when the line holds no ':'.
SplitRaises(line) == Len(SplitOnce(line, ":")) < 2

\* A variant of IdentityValue that keeps a value already set.
IdentityValueKeepFirst(old, line) ==
    IF old # <<>> THEN old ELSE Strip(SplitOnce(line, ":")[2])

\* data[key] = line.split(":", 1)[1].strip(): the new value of the field; the
\* old value is not read.
IdentityValue(old, line) == Strip(SplitOnce(line, ":")[2])

\* A variant of Accumulate that assigns instead of appending.
AccumulateOverwrite(acc, line) == line \o <<"\n">>

\* data[current_key] += line + "\n"
Accumulate(acc, line) == acc \o line \o <<"\n">>

\* The dict literal of empty strings.
EmptyData == [k \in FieldNames |-> <<>>]

\* return {k: v.strip() for k, v in data.items()}
StripValues(d) == [k \in DOMAIN d |-> Strip(d[k])]

\* ---- the inputs ----
MaxLines == 3

LineVocab ==
    { <<" "," ">>,
      <<" ","a","\r">>,
      <<"-"," ","b">>,
      <<"F","u","l","l"," ","N","a","m","e",":"," ","A","l">>,
      <<"E","M","A","I","L",":","x",":","y">>,
      <<"e","m","a","i","l"," ","z">>,
      <<"E","m","a","i","l",":"," ","F","u","l","l"," ","N","a","m","e",":"," ","d">>,
      <<"P","h","o","n","e",":"," ","P","r","o","f","i","l","e"," ","S","u","m","m","a","r","y",":">>,
      <<"T","E","C","H","N","I","C","A","L"," ","S","K","I","L","L","S",":">>,
      <<"s","o","f","t"," ","s","k","i","l","l","s",":"," ","c">>,
      <<"x"," ","S","o","f","t"," ","S","k","i","l","l","s",":"," ","P","r","o","f","i","l","e"," ","S","u","m","m","a","r","y",":">> }

Texts ==
    { Join(ls, <<"\n">>) :
        ls \in UNION { [1..n -> LineVocab] : n \in 0..MaxLines } }

NoRecord == [k \in {} |-> <<>>]

\* ---- the actions ----
InitParse ==
    /\ text \in Texts
    /\ lines = <<>> /\ idx = 0 /\ data = NoRecord
    /\ current_key = "None" /\ ppc = "call" /\ result = NoRecord
    /\ rec = NoRecord /\ logo_found = FALSE /\ doc = <<>> /\ bpc = "idle"
    /\ clock = 0 /\ files = {} /\ req = <<>>

\* Lines 101-108: the dict of empty strings, current_key = None, the split.
ParseBegin ==
    /\ ppc = "call"
    /\ data' = EmptyData
    /\ current_key' = "None"
    /\ lines' = Split(text, "\n")
    /\ idx' = 1
    /\ ppc' = "loop"
    /\ UNCHANGED <<text, result, bvars, rvars>>

\* Lines 108-126: one iteration of the for loop.
ParseLine ==
    /\ ppc = "loop"
    /\ idx <= Len(lines)
    /\ LET line == Strip(lines[idx])
           c == Classify(line)
       IN IF line = <<>>
          THEN /\ idx' = idx + 1
               /\ UNCHANGED <<data, current_key, ppc>>
          ELSE IF c.kind = "identity"
          THEN IF SplitRaises(line)
               THEN /\ ppc' = "raised"
                    /\ UNCHANGED <<data, current_key, idx>>
               ELSE /\ data' = [data EXCEPT
                                  ![c.key] = IdentityValue(data[c.key], line)]
                    /\ idx' = idx + 1
                    /\ UNCHANGED <<current_key, ppc>>
          ELSE IF c.kind = "heading"
          THEN /\ current_key' = c.key
               /\ idx' = idx + 1
               /\ UNCHANGED <<data, ppc>>
          ELSE /\ data' = IF current_key # "None"
                          THEN [data EXCEPT
                                  ![current_key] = Accumulate(data[current_key], line)]
                          ELSE data
               /\ idx' = idx + 1
               /\ UNCHANGED <<current_key, ppc>>
    /\ UNCHANGED <<text, lines, result, bvars, rvars>>

\* Line 128: the loop is over; every value is stripped and returned.
ParseReturn ==
    /\ ppc = "loop"
    /\ idx > Len(lines)
    /\ result' = StripValues(data)
    /\ ppc' = "returned"
    /\ UNCHANGED <<text, lines, idx, data, current_key, bvars, rvars>>

NextParse ==
    \/ ParseBegin
    \/ ParseLine
    \/ ParseReturn

SpecParse == InitParse /\ [][NextParse]_vars

---------------------------------------------------------------------------
(* Properties of parse_ai_response                                         *)

Chars ==
    UpperSet \cup LowerSet \cup Digits \cup Whitespace
    \cup {":", "-", "|", "/", ".", "_", "@", "EN_DASH", "BULLET"}

\* The input lines as the loop sees them: each stripped.
Trimmed(i) == Strip(lines[i])

\* The text after the first ':' of a line, trimmed.
AfterFirstColon(line) ==
    Strip(SubSeq(line, FirstIndex(line, ":") + 1, Len(line)))

HasIdentityLow(low) ==
    \/ Contains(low, P_full_name)
    \/ Contains(low, P_professional_title)
    \/ Contains(low, P_email)
    \/ Contains(low, P_phone)
    \/ Contains(low, P_location)

HasIdentity(line) == HasIdentityLow(Lower(line))

FirstIdentityKeyLow(low) ==
    IF Contains(low, P_full_name) THEN "Full Name"
    ELSE IF Contains(low, P_professional_title) THEN "Professional Title"
    ELSE IF Contains(low, P_email) THEN "Email"
    ELSE IF Contains(low, P_phone) THEN "Phone"
    ELSE "Location"

\* The identity field a line is taken for: that of the first pattern, in the
\* order of the tests, that the line contains.
FirstIdentityKey(line) == FirstIdentityKeyLow(Lower(line))

HasHeadingLow(low) ==
    \/ Contains(low, P_profile_summary)
    \/ Contains(low, P_professional_experience)
    \/ Contains(low, P_project_experience)
    \/ Contains(low, P_technical_skills)
    \/ Contains(low, P_soft_skills)

HasHeading(line) == HasHeadingLow(Lower(line))

FirstHeadingKeyLow(low) ==
    IF Contains(low, P_profile_summary) THEN "Profile Summary"
    ELSE IF Contains(low, P_professional_experience)
         THEN "Professional Experience"
    ELSE IF Contains(low, P_project_experience) THEN "Project Experience"
    ELSE IF Contains(low, P_technical_skills) THEN "Technical Skills"
    ELSE "Soft Skills"

\* The section a heading line switches to: that of the first heading
\* pattern, in the order of the tests, that the line contains.
FirstHeadingKey(line) == FirstHeadingKeyLow(Lower(line))

\* Line i is a heading line: not blank, not an identity line, and it
\* contains a heading pattern.
IsHeadingLine(i) ==
    Trimmed(i) # <<>> /\ ~HasIdentity(Trimmed(i)) /\ HasHeading(Trimmed(i))

MaxOf(S) == CHOOSE m \in S : \A n \in S : n <= m

\* The section that is active when line i is read.
ActiveAt(i) ==
    LET hs == {j \in 1..(i - 1) : IsHeadingLine(j)}
    IN IF hs = {} THEN "None" ELSE FirstHeadingKey(Trimmed(MaxOf(hs)))

\* The members of a set of line numbers, ascending.
RECURSIVE Ascending(_)
Ascending(S) ==
    IF S = {} THEN <<>>
    ELSE LET m == MaxOf(S) IN Ascending(S \ {m}) \o <<m>>

JoinedLines(S) ==
    LET order == Ascending(S)
    IN Join([n \in 1..Len(order) |-> Trimmed(order[n])], <<"\n">>)

\* C1: for every input text the call returns without raising, and the
\* returned record has exactly the ten field names as keys, each mapped to a
\* string.
C1_TenKeysNeverRaises ==
    /\ ppc # "raised"
    /\ ppc = "loop" => idx \in 1..(Len(lines) + 1) /\ DOMAIN data = FieldNames
    /\ ppc = "returned" =>
          /\ DOMAIN result = FieldNames
          /\ Cardinality(DOMAIN result) = 10
          /\ \A k \in FieldNames : result[k] \in Seq(Chars)

\* A text of three lines, one of them without any ':', has been parsed and
\* some fields were found.
C1_Witness ==
    /\ ppc = "returned"
    /\ Len(lines) = 3
    /\ \E i \in 1..3 : FirstIndex(lines[i], ":") = 0 /\ Trimmed(i) # <<>>
    /\ result["Full Name"] # <<>>
    /\ result["Profile Summary"] # <<>>

\* C5 as amended: each section field is the newline-joined sequence, in
\* source order, of the trimmed non-blank lines read while that section is
\* active that are neither identity lines nor heading lines; a heading line
\* contributes nothing, and there is no trailing newline.
C5_SectionBody(k) ==
    {i \in 1..Len(lines) :
        /\ Trimmed(i) # <<>>
        /\ ~HasIdentity(Trimmed(i))
        /\ ~HasHeading(Trimmed(i))
        /\ ActiveAt(i) = k}

C5_SectionFields ==
    ppc = "returned" =>
        \A k \in SectionKeys : result[k] = JoinedLines(C5_SectionBody(k))

\* A heading line with text after its colon, then two body lines, both kept
\* in order and the heading's own text dropped.
C5_Witness ==
    /\ ppc = "returned"
    /\ Len(lines) = 3
    /\ IsHeadingLine(1)
    /\ AfterFirstColon(Trimmed(1)) # <<>>
    /\ C5_SectionBody("Soft Skills") = {2, 3}
    /\ Trimmed(2) # Trimmed(3)
    /\ result["Soft Skills"] = Trimmed(2) \o <<"\n">> \o Trimmed(3)

\* C5 as stated: every trimmed non-blank line read while the section is
\* active, other than heading lines, is in the field -- identity lines too.
C5_OriginalBody(k) ==
    {i \in 1..Len(lines) :
        /\ Trimmed(i) # <<>>
        /\ ~IsHeadingLine(i)
        /\ ActiveAt(i) = k}

C5_Original ==
    ppc = "returned" =>
        \A k \in SectionKeys : result[k] = JoinedLines(C5_OriginalBody(k))

\* C9 as amended: a non-blank line that contains an identity pattern, even
\* if it also contains a heading pattern, sets the identity field of the
\* first identity pattern it contains (in the order full name, professional
\* title, email, phone, location) to the trimmed text after the first ':' of
\* the line, and changes nothing else: not the active section, no section
\* field, no other identity field.
C9_IdentityBeforeHeading ==
    [][ (ppc = "loop" /\ idx <= Len(lines) /\ HasIdentity(Trimmed(idx))) =>
            /\ ppc' = "loop"
            /\ idx' = idx + 1
            /\ current_key' = current_key
            /\ data'[FirstIdentityKey(Trimmed(idx))] = AfterFirstColon(Trimmed(idx))
            /\ \A f \in FieldNames \ {FirstIdentityKey(Trimmed(idx))} :
                    data'[f] = data[f]
      ]_pvars

\* A line with an identity pattern and a heading pattern has been read inside
\* an active section: the identity field is set, the section stays.
C9_Witness ==
    /\ ppc = "loop"
    /\ idx = 3
    /\ IsHeadingLine(1)
    /\ Contains(Lower(Trimmed(2)), P_phone)
    /\ Contains(Lower(Trimmed(2)), P_profile_summary)
    /\ data["Phone"] = AfterFirstColon(Trimmed(2))
    /\ current_key = "Technical Skills"

\* C9 as stated: every identity pattern the line contains has its field set.
C9_Original ==
    [][ (ppc = "loop" /\ idx <= Len(lines) /\ Trimmed(idx) # <<>>) =>
            \A i \in 1..Len(IdentityPats) :
                Contains(Lower(Trimmed(idx)), IdentityPats[i].pat) =>
                    /\ data'[IdentityPats[i].key] = AfterFirstColon(Trimmed(idx))
                    /\ current_key' = current_key
                    /\ \A f \in SectionKeys : data'[f] = data[f]
      ]_pvars

\* C10 as amended: an identity field ends as the trimmed text after the
\* first ':' of the last line that is taken for that field (the last line
\* whose first identity pattern, in the order of the tests, is the field's),
\* wherever that line lies; values of earlier such lines are lost; with no
\* such line the field is empty.
C10_LinesFor(k) ==
    {i \in 1..Len(lines) :
        Trimmed(i) # <<>> /\ HasIdentity(Trimmed(i))
        /\ FirstIdentityKey(Trimmed(i)) = k}

C10_LastWins ==
    ppc = "returned" =>
        \A k \in IdentityKeys :
            result[k] = IF C10_LinesFor(k) = {} THEN <<>>
                        ELSE AfterFirstColon(Trimmed(MaxOf(C10_LinesFor(k))))

\* Two lines are taken for Full Name, the second one inside a section's
\* body, with different values: the later value is the result.
C10_Witness ==
    /\ ppc = "returned"
    /\ Len(lines) = 3
    /\ C10_LinesFor("Full Name") = {1, 3}
    /\ IsHeadingLine(2)
    /\ AfterFirstColon(Trimmed(1)) # AfterFirstColon(Trimmed(3))
    /\ AfterFirstColon(Trimmed(1)) # <<>>
    /\ result["Full Name"] = AfterFirstColon(Trimmed(3))

\* C10 as stated: the last line that contains the field's pattern decides.
C10_LinesContaining(k) ==
    {i \in 1..Len(lines) :
        /\ Trimmed(i) # <<>>
        /\ \E n \in 1..Len(IdentityPats) :
              IdentityPats[n].key = k
              /\ Contains(Lower(Trimmed(i)), IdentityPats[n].pat)}

C10_Original ==
    ppc = "returned" =>
        \A k \in IdentityKeys :
            result[k] = IF C10_LinesContaining(k) = {} THEN <<>>
                        ELSE AfterFirstColon(Trimmed(MaxOf(C10_LinesContaining(k))))

---------------------------------------------------------------------------
(* create_resume: the paragraphs of the document                           *)

\* The alternatives of the regular expression, in its order, lowercased
\* (the expression is matched with re.I).
LabelPrefixes ==
    << <<"p","r","o","f","e","s","s","i","o","n","a","l"," ","t","i","t","l","e","/","d","e","s","i","g","n","a","t","i","o","n",":">>,
       <<"t","i","t","l","e",":">>,
       <<"d","e","s","i","g","n","a","t","i","o","n",":">> >>

\* A variant of StripLabel that matches the labels as written, in capitals.
StripLabelCaseSensitive(title) ==
    IF \E i \in 1..Len(LabelPrefixes) : StartsWith(title, Upper(LabelPrefixes[i]))
    THEN LET i == CHOOSE j \in 1..Len(LabelPrefixes) :
                     StartsWith(title, Upper(LabelPrefixes[j]))
         IN LStrip(SubSeq(title, Len(LabelPrefixes[i]) + 1, Len(title)))
    ELSE title

\* re.sub(r'^(PROFESSIONAL TITLE/DESIGNATION:|TITLE:|DESIGNATION:)\s*', '',
\*        title, flags=re.I): one label at the start of the string, and the
\* whitespace after it, removed.
StripLabel(title) ==
    IF \E i \in 1..Len(LabelPrefixes) : StartsWith(Lower(title), LabelPrefixes[i])
    THEN LET i == CHOOSE j \in 1..Len(LabelPrefixes) :
                     /\ StartsWith(Lower(title), LabelPrefixes[j])
                     /\ \A n \in 1..(j - 1) :
                            ~StartsWith(Lower(title), LabelPrefixes[n])
         IN LStrip(SubSeq(title, Len(LabelPrefixes[i]) + 1, Len(title)))
    ELSE title

\* Lines 168-170: name, title and the text of the name/title paragraph.
DisplayLine(d) ==
    LET name == Upper(d["Full Name"])
        title == Upper(Strip(StripLabel(d["Professional Title"])))
    IN IF title # <<>> THEN name \o <<" ", "EN_DASH", " ">> \o title ELSE name

ContactKeys == {"Email", "Phone", "Location"}

\* A variant of ContactParts that keeps the empty values.
ContactPartsUnfiltered(d) ==
    LET keys == SelectSeq(FieldOrder, LAMBDA k : k \in ContactKeys)
    IN [i \in 1..Len(keys) |-> d[keys[i]]]

\* Line 179: [v for k, v in data.items() if k in [...] and v]; the dict is
\* iterated in its insertion order.
ContactParts(d) ==
    LET keys == SelectSeq(FieldOrder, LAMBDA k : k \in ContactKeys /\ d[k] # <<>>)
    IN [i \in 1..Len(keys) |-> d[keys[i]]]

Para(style, t) == [style |-> style, text |-> t]

\* Lines 153-165: the logo paragraph.
LogoParas(found) ==
    IF found THEN <<Para("picture", <<>>)>> ELSE <<Para("logo", <<"K","R","I","F","Y">>)>>

\* Lines 180-184: the contact paragraph, only when there are parts.
ContactParas(d) ==
    IF ContactParts(d) # <<>>
    THEN <<Para("contact", Join(ContactParts(d), <<" ", "|", " ">>))>>
    ELSE <<>>

\* Lines 187-193.
SectionList ==
    <<[title |-> <<"P","R","O","F","I","L","E"," ","S","U","M","M","A","R","Y">>,         key |-> "Profile Summary"],
      [title |-> <<"P","R","O","F","E","S","S","I","O","N","A","L"," ","E","X","P","E","R","I","E","N","C","E">>, key |-> "Professional Experience"],
      [title |-> <<"P","R","O","J","E","C","T"," ","E","X","P","E","R","I","E","N","C","E">>,      key |-> "Project Experience"],
      [title |-> <<"T","E","C","H","N","I","C","A","L"," ","S","K","I","L","L","S">>,        key |-> "Technical Skills"],
      [title |-> <<"S","O","F","T"," ","S","K","I","L","L","S">>,             key |-> "Soft Skills"]>>

\* Lines 202-208: one paragraph per non-blank line of a section.
RECURSIVE ContentParas(_)
ContentParas(ls) ==
    IF ls = <<>> THEN <<>>
    ELSE LET line == Strip(Head(ls))
         IN (IF line = <<>> THEN <<>>
             ELSE IF line[1] \in {"-", "BULLET"}
             THEN <<Para("List Bullet", line)>>
             ELSE <<Para("Normal", line)>>) \o ContentParas(Tail(ls))

\* Lines 195-208: the sections with a non-empty field, from the n-th on.
RECURSIVE SectionParas(_, _)
SectionParas(d, n) ==
    IF n > Len(SectionList) THEN <<>>
    ELSE (IF d[SectionList[n].key] # <<>>
          THEN <<Para("heading", SectionList[n].title)>>
               \o ContentParas(Split(d[SectionList[n].key], "\n"))
          ELSE <<>>) \o SectionParas(d, n + 1)

\* Lines 211-215.
FooterParas ==
    <<Para("Normal", <<>>), Para("Normal", <<>>),
      Para("footer", <<"P","r","i","v","a","t","e"," ","a","n","d"," ","C","o","n","f","i","d","e","n","t","i","a","l"," ","D","o","c","u","m","e","n","t"," ","EN_DASH"," ","I","n","t","e","n","d","e","d"," ","f","o","r"," ","a","u","t","h","o","r","i","z","e","d"," ","o","r","g","a","n","i","z","a","t","i","o","n","s"," ","o","n","l","y",".">>),
      Para("footer", <<"i","n","f","o","@","k","r","i","f","y",".","c","o","m">>)>>

\* ---- the inputs: records parse_ai_response can return ----
NameValues == { <<>>, <<"A","l">>, <<"J","o","h","n"," ","S","m","i","t","h">> }

TitleValues ==
    { <<>>, <<"J","a","v","a"," ","D","e","v","e","l","o","p","e","r">>, <<"T","i","t","l","e",":">>, <<"t","i","t","l","e",":"," ","d","e","v">>,
      <<"D","E","S","I","G","N","A","T","I","O","N",":","Q","a">>, <<"P","r","o","f","e","s","s","i","o","n","a","l"," ","T","i","t","l","e","/","D","e","s","i","g","n","a","t","i","o","n",":"," ","L","e","a","d">>,
      <<"T","i","t","l","e",":"," ","D","e","s","i","g","n","a","t","i","o","n",":"," ","x">> }

EmailValues == { <<>>, <<"a","@","b",".","c">> }
PhoneValues == { <<>>, <<"1","2">> }
LocationValues == { <<>>, <<"R","o","m","e">> }
SummaryValues == { <<>>, <<"s","1","\n","-"," ","s","2">> }
SoftValues == { <<>>, <<"BULLET"," ","t">> }

InitBuild ==
    /\ \E n \in NameValues, t \in TitleValues, e \in EmailValues,
          p \in PhoneValues, l \in LocationValues,
          s \in SummaryValues, f \in SoftValues :
            rec = [k \in FieldNames |->
                     IF k = "Full Name" THEN n
                     ELSE IF k = "Professional Title" THEN t
                     ELSE IF k = "Email" THEN e
                     ELSE IF k = "Phone" THEN p
                     ELSE IF k = "Location" THEN l
                     ELSE IF k = "Profile Summary" THEN s
                     ELSE IF k = "Soft Skills" THEN f
                     ELSE <<>>]
    /\ logo_found \in BOOLEAN
    /\ doc = <<>> /\ bpc = "call"
    /\ text = <<>> /\ lines = <<>> /\ idx = 0 /\ data = NoRecord
    /\ current_key = "None" /\ ppc = "idle" /\ result = NoRecord
    /\ clock = 0 /\ files = {} /\ req = <<>>

\* Lines 152-215: the paragraphs, in the order they are added.
CreateResume ==
    /\ bpc = "call"
    /\ doc' = LogoParas(logo_found)
              \o <<Para("name", DisplayLine(rec))>>
              \o ContactParas(rec)
              \o SectionParas(rec, 1)
              \o FooterParas
    /\ bpc' = "built"
    /\ UNCHANGED <<rec, logo_found, pvars, rvars>>

NextBuild == CreateResume

SpecBuild == InitBuild /\ [][NextBuild]_vars

---------------------------------------------------------------------------
(* Properties of create_resume                                             *)

JohnSmith == <<"J","o","h","n"," ","S","m","i","t","h">>
JavaDeveloper == <<"J","a","v","a"," ","D","e","v","e","l","o","p","e","r">>
JohnSmithLine ==
    <<"J","O","H","N"," ","S","M","I","T","H"," ","EN_DASH"," ","J","A","V","A"," ","D","E","V","E","L","O","P","E","R">>

ParasOf(style) == SelectSeq(doc, LAMBDA p : p.style = style)

Dash == <<" ", "EN_DASH", " ">>

\* The Professional Title without one leading label and trimmed.
C7_Remainder(pt) ==
    LET l == Lower(pt)
        cut(n) == Strip(SubSeq(pt, n + 1, Len(pt)))
    IN IF StartsWith(l, <<"p","r","o","f","e","s","s","i","o","n","a","l"," ","t","i","t","l","e","/","d","e","s","i","g","n","a","t","i","o","n",":">>) THEN cut(31)
       ELSE IF StartsWith(l, <<"t","i","t","l","e",":">>) THEN cut(6)
       ELSE IF StartsWith(l, <<"d","e","s","i","g","n","a","t","i","o","n",":">>) THEN cut(12)
       ELSE Strip(pt)

\* C7 as amended: the name/title line is the uppercased Full Name, " - " (an
\* en dash) and the uppercased remainder of Professional Title after one
\* leading label is stripped and the rest trimmed, whenever that remainder
\* is non-empty; and the uppercased Full Name alone exactly when the
\* remainder is empty (Professional Title empty, or a label and nothing
\* else).
C7_NameTitleLine ==
    bpc = "built" =>
        /\ Len(ParasOf("name")) = 1
        /\ LET shown == ParasOf("name")[1].text
               name == Upper(rec["Full Name"])
               rest == C7_Remainder(rec["Professional Title"])
           IN /\ rest # <<>> => shown = name \o Dash \o Upper(rest)
              /\ rest = <<>> <=> shown = name
              /\ (rec["Full Name"] = JohnSmith /\ rec["Professional Title"] = JavaDeveloper)
                    => shown = JohnSmithLine

\* "John Smith" with "Java Developer", and the title with a lowercase label.
C7_Witness ==
    /\ bpc = "built"
    /\ rec["Professional Title"] = <<"t","i","t","l","e",":"," ","d","e","v">>
    /\ rec["Full Name"] = <<"J","o","h","n"," ","S","m","i","t","h">>
    /\ ParasOf("name")[1].text = <<"J","O","H","N"," ","S","M","I","T","H"," ","EN_DASH"," ","D","E","V">>

\* C7 as stated: the dash and the title whenever Professional Title is
\* non-empty, the name alone exactly when Professional Title is empty.
C7_Original ==
    bpc = "built" =>
        LET shown == ParasOf("name")[1].text
            name == Upper(rec["Full Name"])
            pt == rec["Professional Title"]
        IN /\ pt # <<>> => shown = name \o Dash \o Upper(C7_Remainder(pt))
           /\ pt = <<>> <=> shown = name

\* C8: the contact line is emitted if and only if one of Email, Phone,
\* Location is non-empty, and its text is the non-empty values among them in
\* that order, joined with " | ", with no separator before the first or
\* after the last.
C8_ContactLine ==
    bpc = "built" =>
        LET e == rec["Email"]
            p == rec["Phone"]
            l == rec["Location"]
            bar == <<" ", "|", " ">>
            after(x, y) == IF x # <<>> /\ y # <<>> THEN bar ELSE <<>>
            expected == e \o after(e, p) \o p
                          \o after(e \o p, l) \o l
        IN /\ Len(ParasOf("contact")) = IF expected = <<>> THEN 0 ELSE 1
           /\ expected # <<>> => ParasOf("contact")[1].text = expected
           /\ (e = <<>> /\ p = <<>> /\ l = <<>>) <=> ParasOf("contact") = <<>>

\* Only the phone is present: it stands alone.
C8_Witness ==
    /\ bpc = "built"
    /\ rec["Email"] = <<>> /\ rec["Location"] = <<>>
    /\ rec["Phone"] # <<>>
    /\ ParasOf("contact") = <<Para("contact", rec["Phone"])>>

---------------------------------------------------------------------------
(* convert_route: concurrent requests over the shared temp directory       *)

\* The requests in flight (the development server handles each request in
\* its own thread).
Reqs == {"r1", "r2"}

\* The last second the model's clock reaches.
MaxClock == 1

DigitChar == <<"0","1","2","3","4","5","6","7","8","9">>

\* datetime.now().strftime("%Y%m%d_%H%M%S"): fifteen characters, resolution
\* one second.  The clock counts the seconds of one minute.
Strftime(c) ==
    <<"2","0","2","6","0","1","0","1","_","0","9","0","0">> \o <<DigitChar[(c \div 10) + 1], DigitChar[(c % 10) + 1]>>

\* f"in_{ts}_{file.filename}", under TEMP_DIR.
InPath(ts, filename) == <<"i","n","_">> \o ts \o <<"_">> \o filename

SafeNameLen == 30

IsAlnum(c) == IsUpper(c) \/ IsLower(c) \/ c \in Digits

\* re.sub(r'[^a-zA-Z0-9]', '_', name)[:30] or "Candidate"
SafeName(name) ==
    LET sub == [i \in 1..Len(name) |-> IF IsAlnum(name[i]) THEN name[i] ELSE "_"]
        cut == SubSeq(sub, 1, IF Len(sub) < SafeNameLen THEN Len(sub) ELSE SafeNameLen)
    IN IF cut = <<>> THEN <<"C","a","n","d","i","d","a","t","e">> ELSE cut

\* f"Resume_{safe_name}_{ts}.docx", under TEMP_DIR.
OutPath(safe_name, ts) ==
    <<"R","e","s","u","m","e","_">> \o safe_name \o <<"_">> \o ts \o <<".","d","o","c","x">>

\* str.replace(old, new): every occurrence, left to right.
RECURSIVE Replace(_, _, _)
Replace(s, old, new) ==
    IF Len(s) < Len(old) THEN s
    ELSE IF StartsWith(s, old)
    THEN new \o Replace(SubSeq(s, Len(old) + 1, Len(s)), old, new)
    ELSE <<Head(s)>> \o Replace(Tail(s), old, new)

\* path.replace(".docx", ".pdf")
PdfPath(path) == Replace(path, <<".","d","o","c","x">>, <<".","p","d","f">>)

\* A variant of safe_convert_to_pdf that returns the PDF path either way.
SafeConvertAlwaysPdf(converted, docx_path, pdf_path) == pdf_path

\* safe_convert_to_pdf: the PDF path when convert() returned, the .docx path
\* when it raised.
SafeConvertToPdf(converted, docx_path, pdf_path) ==
    IF converted THEN pdf_path ELSE docx_path

\* The text of the uploaded document: the pages of a PDF, or the paragraphs
\* of a Word document.
UploadPages == << <<"a","b">>, <<"c"," ">> >>

\* extract_text, PDF branch: text += (page.extract_text() or "") + "\n" for
\* each page; an exception at page failAt (0: none; 1: at or before the first
\* page) ends the loop with the text read so far.  The result is stripped.
RECURSIVE PdfText(_, _, _)
PdfText(pages, n, failAt) ==
    IF n > Len(pages) \/ n = failAt THEN <<>>
    ELSE pages[n] \o <<"\n">> \o PdfText(pages, n + 1, failAt)

\* extract_text, Word branch: text is assigned once, after every paragraph
\* was read; a failure leaves it "".
DocxText(pages, failAt) ==
    IF failAt # 0 THEN <<>> ELSE Join(pages, <<"\n">>)

\* extract_text(path)
ExtractText(path, pages, failAt) ==
    Strip(IF EndsWith(Lower(path), <<".","p","d","f">>)
          THEN PdfText(pages, 1, failAt)
          ELSE DocxText(pages, failAt))

\* The names uploads arrive with: file.filename is the client's string.
Filenames == { <<"c","v",".","P","D","F">>, <<"c","v",".","d","o","c","x">>, <<"d","/","c","v",".","p","d","f">> }

\* The Full Name of the record the AI stage returns.
AINames == { <<>>, <<"A","l"," ","B">> }

NoPath == <<>>

IdleReq ==
    [pc |-> "idle", filename |-> <<>>, ts |-> <<>>, in_path |-> NoPath,
     cleanup_list |-> <<>>, txt |-> <<>>, data |-> "unset", full_name |-> <<>>,
     out_path |-> NoPath, final_path |-> NoPath, registered |-> FALSE,
     response |-> "none",
     \* bookkeeping for the properties
     calls |-> <<>>, extract_failed |-> FALSE, convert_failed |-> FALSE,
     send_failed |-> FALSE, created |-> {}]

InitRoute ==
    /\ clock = 0
    /\ files = {}
    /\ req = [r \in Reqs |-> IdleReq]
    /\ text = <<>> /\ lines = <<>> /\ idx = 0 /\ data = NoRecord
    /\ current_key = "None" /\ ppc = "idle" /\ result = NoRecord
    /\ rec = NoRecord /\ logo_found = FALSE /\ doc = <<>> /\ bpc = "idle"

\* A second passes.
Tick ==
    /\ clock < MaxClock
    /\ clock' = clock + 1
    /\ UNCHANGED <<files, req, pvars, bvars>>

\* Lines 225-229: the upload is looked up; without one the request is
\* redirected; otherwise ts and in_path are computed.
Receive(r) ==
    /\ req[r].pc = "idle"
    /\ \/ req' = [req EXCEPT ![r].pc = "done", ![r].response = "redirect"]
       \/ \E fn \in Filenames :
            req' = [req EXCEPT ![r].pc = "save",
                               ![r].filename = fn,
                               ![r].ts = Strftime(clock),
                               ![r].in_path = InPath(Strftime(clock), fn)]
    /\ UNCHANGED <<clock, files, pvars, bvars>>

\* A path separator in the name puts in_path in a directory that does not
\* exist.
HasSeparator(filename) == \E i \in 1..Len(filename) : filename[i] = "/"

\* Lines 230-232: file.save(in_path), outside the try block: an exception
\* here leaves the handler unhandled (the framework answers 500).
Save(r) ==
    /\ req[r].pc = "save"
    /\ \/ /\ ~HasSeparator(req[r].filename)
          /\ files' = files \cup {req[r].in_path}
          /\ req' = [req EXCEPT ![r].pc = "extract",
                                ![r].cleanup_list = <<req[r].in_path>>,
                                ![r].created = @ \cup {req[r].in_path}]
       \/ /\ files' = files
          /\ req' = [req EXCEPT ![r].pc = "done", ![r].response = "error"]
    /\ UNCHANGED <<clock, pvars, bvars>>

\* Line 234: txt = extract_text(in_path).  The file is read in full
\* (failAt = 0) or reading raises at some page or paragraph; a missing file
\* raises at once.  extract_text catches the exception itself.
Extract(r) ==
    /\ req[r].pc = "extract"
    /\ \E failAt \in 0..Len(UploadPages) :
          /\ req[r].in_path \notin files => failAt = 1
          /\ req' = [req EXCEPT
                ![r].pc = "ai",
                ![r].txt = ExtractText(req[r].in_path, UploadPages, failAt),
                ![r].extract_failed = (failAt # 0),
                ![r].calls = Append(@, "extract")]
    /\ UNCHANGED <<clock, files, pvars, bvars>>

\* Lines 235-236: data = get_ai_data(txt); get_ai_data returns the parsed
\* record (ten keys, so truthy) or, on any exception, None, and then the
\* handler redirects at once.
GetAI(r) ==
    /\ req[r].pc = "ai"
    /\ \/ req' = [req EXCEPT ![r].pc = "done",
                             ![r].data = "None",
                             ![r].response = "redirect",
                             ![r].calls = Append(@, "ai")]
       \/ \E n \in AINames :
            req' = [req EXCEPT ![r].pc = "build",
                               ![r].data = "record",
                               ![r].full_name = n,
                               ![r].calls = Append(@, "ai")]
    /\ UNCHANGED <<clock, files, pvars, bvars>>

\* Lines 238-248: out_path, create_resume (doc.save, then
\* safe_convert_to_pdf), the cleanup list and the registration of cleanup.
\* An exception in create_resume reaches the handler's except clause.
Build(r) ==
    /\ req[r].pc = "build"
    /\ LET out == OutPath(SafeName(req[r].full_name), req[r].ts)
           pdf == PdfPath(out)
       IN \/ /\ files' = files
             /\ req' = [req EXCEPT ![r].pc = "done",
                                   ![r].out_path = out,
                                   ![r].response = "redirect",
                                   ![r].calls = Append(@, "build")]
          \/ \E converted \in BOOLEAN :
               LET final == SafeConvertToPdf(converted, out, pdf)
                   written == IF converted THEN {out, pdf} ELSE {out}
               IN /\ files' = files \cup written
                  /\ req' = [req EXCEPT
                        ![r].pc = "send",
                        ![r].out_path = out,
                        ![r].final_path = final,
                        ![r].convert_failed = ~converted,
                        ![r].cleanup_list = @ \o <<out, final>>,
                        ![r].registered = TRUE,
                        ![r].created = @ \cup written,
                        ![r].calls = Append(@, "build")]
    /\ UNCHANGED <<clock, pvars, bvars>>

\* Lines 250-253: send_file(final_path); an exception (the file is gone, or
\* any other) reaches the except clause and the request is redirected.
Send(r) ==
    /\ req[r].pc = "send"
    /\ \/ /\ req[r].final_path \in files
          /\ req' = [req EXCEPT ![r].pc = "cleanup",
                                ![r].response = "download",
                                ![r].calls = Append(@, "send")]
       \/ req' = [req EXCEPT ![r].pc = "cleanup",
                             ![r].response = "redirect",
                             ![r].send_failed = TRUE,
                             ![r].calls = Append(@, "send")]
    /\ UNCHANGED <<clock, files, pvars, bvars>>

\* Lines 244-248: the registered cleanup runs with the response: every path
\* of cleanup_list that exists is removed.
Cleanup(r) ==
    /\ req[r].pc = "cleanup"
    /\ req[r].registered
    /\ files' = files \ {req[r].cleanup_list[i] : i \in 1..Len(req[r].cleanup_list)}
    /\ req' = [req EXCEPT ![r].pc = "done"]
    /\ UNCHANGED <<clock, pvars, bvars>>

NextRoute ==
    \/ Tick
    \/ \E r \in Reqs : Receive(r)
    \/ \E r \in Reqs : Save(r)
    \/ \E r \in Reqs : Extract(r)
    \/ \E r \in Reqs : GetAI(r)
    \/ \E r \in Reqs : Build(r)
    \/ \E r \in Reqs : Send(r)
    \/ \E r \in Reqs : Cleanup(r)

SpecRoute == InitRoute /\ [][NextRoute]_vars

---------------------------------------------------------------------------
(* Properties of convert_route                                             *)

Stages == <<"extract", "ai", "build", "send">>

IsPrefix(s, t) == Len(s) <= Len(t) /\ SubSeq(t, 1, Len(s)) = s

Called(r, stage) == \E i \in 1..Len(req[r].calls) : req[r].calls[i] = stage

\* What a PDF yields when reading fails at its n-th page, for every n.
TextsBeforeFailure ==
    {Strip(PdfText(UploadPages, 1, n)) : n \in 1..Len(UploadPages)}

\* C2: once a request is over, whichever way it ended, no file it wrote is
\* left in the temp directory.
C2_TempFilesDeleted ==
    \A r \in Reqs :
        req[r].pc = "done" => req[r].created \cap files = {}

\* C3: a request ends in a download or in a redirect, never in anything
\* else, whichever step failed.
C3_DownloadOrRedirect ==
    \A r \in Reqs :
        req[r].pc = "done" => req[r].response \in {"download", "redirect"}

InFlight(r) == req[r].pc \notin {"idle", "done"}

PathsOf(r) ==
    {req[r].in_path, req[r].out_path, req[r].final_path} \ {NoPath}

\* C6: two requests in flight at the same time never use the same temp
\* path.
C6_DisjointPaths ==
    \A r1 \in Reqs : \A r2 \in Reqs \ {r1} :
        (InFlight(r1) /\ InFlight(r2)) => PathsOf(r1) \cap PathsOf(r2) = {}

===========================================================================
